---- MODULE Spec2Model ----
(***************************************************************************)
(* Model of the Minesweeper rule engine of src/components.py: the Board    *)
(* with its cells, lazy mine placement with first-click safety, reveal     *)
(* with iterative flood fill, flag toggling, hint and win/loss detection.  *)
(* Every public method of Board is one atomic action (the engine is        *)
(* synchronous and single-threaded).                                       *)
(***************************************************************************)
EXTENDS Integers, Sequences, FiniteSets, TLC

\* ---- bounds of the model ----
MaxCols == 3
MaxRows == 3
MaxCells == 9
MaxMines == 2
MaxFlags == 1

VARIABLES cols, rows, num_mines, cells, mines_placed, revealed_count,
          game_over, win,
          stack,   \* the stack of a reveal call that is inside its loop
          pc       \* "idle": no call is running; "fill": inside the loop

vars == <<cols, rows, num_mines, cells, mines_placed, revealed_count,
          game_over, win, stack, pc>>

board == <<cells, revealed_count, game_over, win>>

\* ---- CellState / Cell ----
\* CellState.__init__ defaults
CellState == [is_mine |-> FALSE, is_revealed |-> FALSE,
              is_flagged |-> FALSE, adjacent |-> 0]

\* ---- coordinate utilities ----
index(col, row) == row * cols + col

is_inbounds(col, row) == 0 <= col /\ col < cols /\ 0 <= row /\ row < rows

deltas == << <<-1, -1>>, <<0, -1>>, <<1, -1>>,
             <<-1, 0>>,             <<1, 0>>,
             <<-1, 1>>,  <<0, 1>>,  <<1, 1>> >>

\* the in-bounds neighbours of (col,row), in the order of deltas
neighbors(col, row) ==
    SelectSeq([i \in 1..8 |-> <<col + deltas[i][1], row + deltas[i][2]>>],
              LAMBDA p : is_inbounds(p[1], p[2]))

Range(s) == {s[i] : i \in DOMAIN s}

all_positions == {<<c, r>> : c \in 0..(cols - 1), r \in 0..(rows - 1)}

Min(a, b) == IF a <= b THEN a ELSE b

\* ---- mine placement ----
\* variant: only the clicked cell is kept free of mines
forbidden_click_only(safe_col, safe_row) == {<<safe_col, safe_row>>}

forbidden(safe_col, safe_row) ==
    {<<safe_col, safe_row>>} \cup Range(neighbors(safe_col, safe_row))

\* variant: the forbidden zone is not removed from the pool
pool_unfiltered(safe_col, safe_row) == all_positions

pool(safe_col, safe_row) == all_positions \ forbidden(safe_col, safe_row)

\* random.shuffle(pool); set(pool[:num_mines]): the first num_mines entries
\* of an arbitrary permutation of the pool, i.e. any subset of the pool of
\* size min(num_mines, len(pool)).
mine_choices(safe_col, safe_row) ==
    {S \in SUBSET pool(safe_col, safe_row) :
        Cardinality(S) = Min(num_mines, Cardinality(pool(safe_col, safe_row)))}

\* variant: the count is set to 1 instead of being incremented
mine_neighbors_set_one(cs, c, r) ==
    IF \E p \in Range(neighbors(c, r)) : cs[index(p[1], p[2])].is_mine
    THEN 1 ELSE 0

\* number of mines among the neighbours of (c,r) in the cell list cs
mine_neighbors(cs, c, r) ==
    Cardinality({p \in Range(neighbors(c, r)) : cs[index(p[1], p[2])].is_mine})

\* the cell list after place_mines laid mine_positions and computed adjacency
place_mines(cs, mine_positions) ==
    LET mineIdx == {index(p[1], p[2]) : p \in mine_positions}
        mined == [i \in DOMAIN cs |->
                    IF i \in mineIdx THEN [cs[i] EXCEPT !.is_mine = TRUE]
                    ELSE cs[i]]
        posAt(i) == CHOOSE p \in all_positions : index(p[1], p[2]) = i
    IN [i \in DOMAIN cs |->
          IF mined[i].is_mine THEN mined[i]
          ELSE [mined[i] EXCEPT
                  !.adjacent = mine_neighbors(mined, posAt(i)[1], posAt(i)[2])]]

\* ---- reveal helpers ----
\* variant: the sweep is skipped
reveal_all_mines_skipped(cs) == cs

reveal_all_mines(cs) ==
    [i \in DOMAIN cs |->
        IF cs[i].is_mine THEN [cs[i] EXCEPT !.is_revealed = TRUE] ELSE cs[i]]

\* variant: the game_over test is missing
check_win_no_over_test(cs, count, over, w) ==
    IF count = cols * rows - num_mines
    THEN [win |-> TRUE,
          cells |-> [i \in DOMAIN cs |->
                       IF ~cs[i].is_revealed /\ ~cs[i].is_mine
                       THEN [cs[i] EXCEPT !.is_revealed = TRUE] ELSE cs[i]]]
    ELSE [win |-> w, cells |-> cs]

\* variant: win is set without the force-reveal
check_win_no_force(cs, count, over, w) ==
    IF count = cols * rows - num_mines /\ ~over
    THEN [win |-> TRUE, cells |-> cs]
    ELSE [win |-> w, cells |-> cs]

\* result of _check_win on cell list cs with counter count
check_win(cs, count, over, w) ==
    IF count = cols * rows - num_mines /\ ~over
    THEN [win |-> TRUE,
          cells |-> [i \in DOMAIN cs |->
                       IF ~cs[i].is_revealed /\ ~cs[i].is_mine
                       THEN [cs[i] EXCEPT !.is_revealed = TRUE] ELSE cs[i]]]
    ELSE [win |-> w, cells |-> cs]

\* variant: every neighbour is pushed, revealed and flagged ones included
fill_pushes_unfiltered(cs, c, r) == neighbors(c, r)

\* the neighbours of (c,r) that the fill pushes: unrevealed and unflagged
fill_pushes(cs, c, r) ==
    SelectSeq(neighbors(c, r),
              LAMBDA p : ~cs[index(p[1], p[2])].is_revealed
                         /\ ~cs[index(p[1], p[2])].is_flagged)

\* variant: the fill also expands cells with one adjacent mine
RECURSIVE flood_fill_expand_one(_, _, _, _)
flood_fill_expand_one(todo, cs, count, pushed) ==
    IF todo = <<>> THEN [cells |-> cs, count |-> count, pushed |-> pushed]
    ELSE LET p == todo[Len(todo)]
             rest == SubSeq(todo, 1, Len(todo) - 1)
             i == index(p[1], p[2])
         IN IF cs[i].is_revealed \/ cs[i].is_flagged
            THEN flood_fill_expand_one(rest, cs, count, pushed)
            ELSE LET cs2 == [cs EXCEPT ![i].is_revealed = TRUE]
                     more == IF cs2[i].adjacent <= 1
                             THEN fill_pushes(cs2, p[1], p[2]) ELSE <<>>
                 IN flood_fill_expand_one(rest \o more, cs2, count + 1,
                                          pushed + Len(more))

\* variant: the counter is raised for every pop, skipped entries included
RECURSIVE flood_fill_count_pops(_, _, _, _)
flood_fill_count_pops(todo, cs, count, pushed) ==
    IF todo = <<>> THEN [cells |-> cs, count |-> count, pushed |-> pushed]
    ELSE LET p == todo[Len(todo)]
             rest == SubSeq(todo, 1, Len(todo) - 1)
             i == index(p[1], p[2])
         IN IF cs[i].is_revealed \/ cs[i].is_flagged
            THEN flood_fill_count_pops(rest, cs, count + 1, pushed)
            ELSE LET cs2 == [cs EXCEPT ![i].is_revealed = TRUE]
                     more == IF cs2[i].adjacent = 0
                             THEN fill_pushes(cs2, p[1], p[2]) ELSE <<>>
                 IN flood_fill_count_pops(rest \o more, cs2, count + 1,
                                          pushed + Len(more))

\* the stack loop of reveal: pops the last entry until the stack is empty
RECURSIVE flood_fill(_, _, _, _)
flood_fill(todo, cs, count, pushed) ==
    IF todo = <<>> THEN [cells |-> cs, count |-> count, pushed |-> pushed]
    ELSE LET p == todo[Len(todo)]
             rest == SubSeq(todo, 1, Len(todo) - 1)
             i == index(p[1], p[2])
         IN IF cs[i].is_revealed \/ cs[i].is_flagged
            THEN flood_fill(rest, cs, count, pushed)
            ELSE LET cs2 == [cs EXCEPT ![i].is_revealed = TRUE]
                     more == IF cs2[i].adjacent = 0
                             THEN fill_pushes(cs2, p[1], p[2]) ELSE <<>>
                 IN flood_fill(rest \o more, cs2, count + 1,
                               pushed + Len(more))

\* ---- operations ----
Init ==
    /\ cols \in 1..MaxCols
    /\ rows \in 1..MaxRows
    /\ cols * rows <= MaxCells
    /\ num_mines \in 0..MaxMines
    /\ cells = [i \in 0..(cols * rows - 1) |-> CellState]
    /\ mines_placed = FALSE
    /\ revealed_count = 0
    /\ game_over = FALSE
    /\ win = FALSE
    /\ stack = <<>>
    /\ pc = "idle"

\* variant: the counter is raised before the revealed/flagged test
reveal_result_count_first(col, row, cs0) ==
    LET i == index(col, row)
    IN IF cs0[i].is_revealed \/ cs0[i].is_flagged
       THEN [cells |-> cs0, revealed_count |-> revealed_count + 1,
             game_over |-> game_over, win |-> win]
       ELSE IF cs0[i].is_mine
       THEN [cells |-> reveal_all_mines([cs0 EXCEPT ![i].is_revealed = TRUE]),
             revealed_count |-> revealed_count,
             game_over |-> TRUE, win |-> win]
       ELSE LET f == flood_fill(<< <<col, row>> >>, cs0, revealed_count, 1)
                w == check_win(f.cells, f.count, game_over, win)
            IN [cells |-> w.cells, revealed_count |-> f.count,
                game_over |-> game_over, win |-> w.win]

\* reveal from the target-cell tests on (lines after the placement), on the
\* cell list cs0: the cell list, counter and outcome flags it leaves
reveal_result(col, row, cs0) ==
    LET i == index(col, row)
    IN IF cs0[i].is_revealed \/ cs0[i].is_flagged
       THEN [cells |-> cs0, revealed_count |-> revealed_count,
             game_over |-> game_over, win |-> win]
       ELSE IF cs0[i].is_mine
       THEN [cells |-> reveal_all_mines([cs0 EXCEPT ![i].is_revealed = TRUE]),
             revealed_count |-> revealed_count,
             game_over |-> TRUE, win |-> win]
       ELSE LET f == flood_fill(<< <<col, row>> >>, cs0, revealed_count, 1)
                w == check_win(f.cells, f.count, game_over, win)
            IN [cells |-> w.cells, revealed_count |-> f.count,
                game_over |-> game_over, win |-> w.win]

\* variant: the placement runs before the bounds test
reveal_place_first(col, row) ==
    \E mine_positions \in
         (IF mines_placed THEN {{}} ELSE mine_choices(col, row)) :
    LET cs0 == IF mines_placed THEN cells
               ELSE place_mines(cells, mine_positions)
    IN IF ~is_inbounds(col, row)
       THEN /\ mines_placed' = TRUE
            /\ cells' = cs0
            /\ UNCHANGED <<stack, pc, cols, rows, num_mines, revealed_count,
                           game_over, win>>
       ELSE LET n == reveal_result(col, row, cs0)
            IN /\ mines_placed' = TRUE
               /\ cells' = n.cells
               /\ revealed_count' = n.revealed_count
               /\ game_over' = n.game_over
               /\ win' = n.win
               /\ UNCHANGED <<stack, pc, cols, rows, num_mines>>

\* variant: the placement ignores the mines_placed latch
reveal_always_places(col, row) ==
    IF ~is_inbounds(col, row) THEN UNCHANGED vars
    ELSE \E mine_positions \in mine_choices(col, row) :
         LET n == reveal_result(col, row, place_mines(cells, mine_positions))
         IN /\ mines_placed' = TRUE
            /\ cells' = n.cells
            /\ revealed_count' = n.revealed_count
            /\ game_over' = n.game_over
            /\ win' = n.win
            /\ UNCHANGED <<stack, pc, cols, rows, num_mines>>

\* Board.reveal(col, row)
reveal(col, row) ==
    IF ~is_inbounds(col, row) THEN UNCHANGED vars
    ELSE \E mine_positions \in
              (IF mines_placed THEN {{}} ELSE mine_choices(col, row)) :
         LET cs0 == IF mines_placed THEN cells
                    ELSE place_mines(cells, mine_positions)
             n == reveal_result(col, row, cs0)
         IN /\ mines_placed' = TRUE
            /\ cells' = n.cells
            /\ revealed_count' = n.revealed_count
            /\ game_over' = n.game_over
            /\ win' = n.win
            /\ UNCHANGED <<stack, pc, cols, rows, num_mines>>

\* Board.flagged_count()
flagged_count == Cardinality({i \in DOMAIN cells : cells[i].is_flagged})

\* variant: the flag is set instead of inverted
toggle_flag_cells_set(cs, col, row) ==
    IF cs[index(col, row)].is_revealed THEN cs
    ELSE [cs EXCEPT ![index(col, row)].is_flagged = TRUE]

\* toggle_flag on an in-bounds cell (lines after the bounds test): the cell
\* list it leaves
toggle_flag_cells(cs, col, row) ==
    IF cs[index(col, row)].is_revealed THEN cs
    ELSE [cs EXCEPT ![index(col, row)].is_flagged = ~@]

\* variant: the is_revealed test is missing
toggle_flag_no_revealed_test(col, row) ==
    IF ~is_inbounds(col, row) THEN UNCHANGED vars
    ELSE /\ cells[index(col, row)].is_flagged \/ flagged_count < MaxFlags
         /\ cells' = [cells EXCEPT ![index(col, row)].is_flagged = ~@]
         /\ UNCHANGED <<stack, pc, cols, rows, num_mines, mines_placed, revealed_count,
                        game_over, win>>

\* Board.toggle_flag(col, row); the model lets at most MaxFlags cells carry a
\* flag at a time (a flag can always be removed)
toggle_flag(col, row) ==
    IF ~is_inbounds(col, row) THEN UNCHANGED vars
    ELSE /\ \/ cells[index(col, row)].is_flagged
            \/ cells[index(col, row)].is_revealed
            \/ flagged_count < MaxFlags
         /\ cells' = toggle_flag_cells(cells, col, row)
         /\ UNCHANGED <<stack, pc, cols, rows, num_mines, mines_placed, revealed_count,
                        game_over, win>>

\* variant: the is_mine test is missing
safe_unrevealed_any ==
    {p \in all_positions :
        LET s == cells[index(p[1], p[2])]
        IN ~s.is_revealed /\ ~s.is_flagged}

\* the cells hint_reveal may pick
safe_unrevealed ==
    {p \in all_positions :
        LET s == cells[index(p[1], p[2])]
        IN ~s.is_mine /\ ~s.is_revealed /\ ~s.is_flagged}

\* Board.hint_reveal()
hint_reveal ==
    IF ~mines_placed \/ game_over \/ win THEN UNCHANGED vars
    ELSE IF safe_unrevealed = {} THEN UNCHANGED vars
    ELSE \E hint_cell \in safe_unrevealed : reveal(hint_cell[1], hint_cell[2])

\* the caller's inputs: every in-bounds position and, for each edge of the
\* grid, positions just outside it
call_positions ==
    all_positions \cup {<<-1, 0>>, <<cols, 0>>, <<0, -1>>, <<0, rows>>,
                        <<-1, -1>>, <<cols, rows>>}

Reveal == \E p \in call_positions : reveal(p[1], p[2])

ToggleFlag == \E p \in call_positions : toggle_flag(p[1], p[2])

HintReveal == hint_reveal

Next == Reveal \/ ToggleFlag \/ HintReveal

Spec == Init /\ [][Next]_vars

\* ---- reveal with its stack loop taken one iteration at a time ----
MaxFillCells == 9

InitFill == Init /\ cols * rows <= MaxFillCells

\* reveal(col, row) up to the initialisation of the stack (lines 114-136)
reveal_begin(col, row) ==
    IF ~is_inbounds(col, row) THEN UNCHANGED vars
    ELSE \E mine_positions \in
              (IF mines_placed THEN {{}} ELSE mine_choices(col, row)) :
         LET cs0 == IF mines_placed THEN cells
                    ELSE place_mines(cells, mine_positions)
             s == cs0[index(col, row)]
         IN IF s.is_revealed \/ s.is_flagged \/ s.is_mine
            THEN LET n == reveal_result(col, row, cs0)
                 IN /\ mines_placed' = TRUE
                    /\ cells' = n.cells
                    /\ revealed_count' = n.revealed_count
                    /\ game_over' = n.game_over
                    /\ win' = n.win
                    /\ UNCHANGED <<stack, pc, cols, rows, num_mines>>
            ELSE /\ mines_placed' = TRUE
                 /\ cells' = cs0
                 /\ stack' = << <<col, row>> >>
                 /\ pc' = "fill"
                 /\ UNCHANGED <<cols, rows, num_mines, revealed_count,
                                game_over, win>>

\* variant: a skipped entry is looked at but not taken off the stack
fill_step_keep_skipped ==
    /\ pc = "fill"
    /\ stack # <<>>
    /\ LET p == stack[Len(stack)]
           rest == SubSeq(stack, 1, Len(stack) - 1)
           i == index(p[1], p[2])
       IN IF cells[i].is_revealed \/ cells[i].is_flagged
          THEN UNCHANGED vars
          ELSE LET cs2 == [cells EXCEPT ![i].is_revealed = TRUE]
                   more == IF cs2[i].adjacent = 0
                           THEN fill_pushes(cs2, p[1], p[2]) ELSE <<>>
               IN /\ cells' = cs2
                  /\ revealed_count' = revealed_count + 1
                  /\ stack' = rest \o more
                  /\ UNCHANGED <<cols, rows, num_mines, mines_placed,
                                 game_over, win, pc>>

\* one iteration of the while loop (lines 137-151)
fill_step ==
    /\ pc = "fill"
    /\ stack # <<>>
    /\ LET p == stack[Len(stack)]
           rest == SubSeq(stack, 1, Len(stack) - 1)
           i == index(p[1], p[2])
       IN IF cells[i].is_revealed \/ cells[i].is_flagged
          THEN /\ stack' = rest
               /\ UNCHANGED <<cols, rows, num_mines, cells, mines_placed,
                              revealed_count, game_over, win, pc>>
          ELSE LET cs2 == [cells EXCEPT ![i].is_revealed = TRUE]
                   more == IF cs2[i].adjacent = 0
                           THEN fill_pushes(cs2, p[1], p[2]) ELSE <<>>
               IN /\ cells' = cs2
                  /\ revealed_count' = revealed_count + 1
                  /\ stack' = rest \o more
                  /\ UNCHANGED <<cols, rows, num_mines, mines_placed,
                                 game_over, win, pc>>

\* the loop ends on the empty stack; _check_win, return (line 153)
fill_end ==
    /\ pc = "fill"
    /\ stack = <<>>
    /\ LET w == check_win(cells, revealed_count, game_over, win)
       IN /\ cells' = w.cells
          /\ win' = w.win
    /\ pc' = "idle"
    /\ UNCHANGED <<cols, rows, num_mines, mines_placed, revealed_count,
                   game_over, stack>>

\* calls are made one at a time: a new call starts when none is running
RevealBegin == pc = "idle" /\ \E p \in call_positions : reveal_begin(p[1], p[2])

ToggleFlagIdle == pc = "idle" /\ ToggleFlag

HintBegin ==
    /\ pc = "idle"
    /\ IF ~mines_placed \/ game_over \/ win THEN UNCHANGED vars
       ELSE IF safe_unrevealed = {} THEN UNCHANGED vars
       ELSE \E hint_cell \in safe_unrevealed :
                reveal_begin(hint_cell[1], hint_cell[2])

FillStep == fill_step

FillEnd == fill_end

NextFill == RevealBegin \/ ToggleFlagIdle \/ HintBegin \/ FillStep \/ FillEnd

\* a running call always continues: the engine is synchronous
SpecFill ==
    /\ InitFill
    /\ [][NextFill]_vars
    /\ WF_vars(FillStep)
    /\ WF_vars(FillEnd)

\* ---- derived views of the state ----
Idx == DOMAIN cells

Mines == {i \in Idx : cells[i].is_mine}

Revealed == {i \in Idx : cells[i].is_revealed}

Flagged == {i \in Idx : cells[i].is_flagged}

TypeOK ==
    /\ cols \in 1..MaxCols /\ rows \in 1..MaxRows
    /\ num_mines \in 0..MaxMines
    /\ mines_placed \in BOOLEAN /\ game_over \in BOOLEAN /\ win \in BOOLEAN
    /\ revealed_count \in 0..(cols * rows)
\* position of flat index i (inverse of the row-major layout)
ColOf(i) == i % cols
RowOf(i) == i \div cols

Abs(x) == IF x < 0 THEN -x ELSE x

\* Moore adjacency of two flat indices, stated directly on coordinates
Adjacent8(i, j) ==
    /\ i # j
    /\ Abs(ColOf(i) - ColOf(j)) <= 1
    /\ Abs(RowOf(i) - RowOf(j)) <= 1

NonMines == Idx \ Mines

\* ---------------------------------------------------------------------
\* C1: loss terminality. Once game_over is true, no reveal, toggle_flag or
\* hint_reveal call changes the board state (cells, revealed_count,
\* game_over, win).
C1_LossTerminality == [][game_over => board' = board]_vars

\* C2: outcome exclusivity. game_over and win are never both true.
C2_OutcomeExclusive == ~(game_over /\ win)

\* C3 (as stated): no cell is ever both revealed and flagged.
C3_FlagRevealExclusive ==
    \A i \in Idx : ~(cells[i].is_revealed /\ cells[i].is_flagged)

\* C3 (amended): while the game is in progress (neither game_over nor win)
\* no cell is both revealed and flagged; in every state, a step never puts a
\* flag on a revealed cell, and a step that reveals a flagged cell is the
\* step that sets game_over (mine sweep) or win (force-reveal).
C3_ExclusiveInProgress ==
    /\ [](~game_over /\ ~win => C3_FlagRevealExclusive)
    /\ [][\A i \in Idx :
            /\ (cells[i].is_revealed /\ ~cells[i].is_flagged
                    => ~cells'[i].is_flagged)
            /\ (cells[i].is_flagged /\ ~cells[i].is_revealed
                /\ cells'[i].is_revealed
                    => \/ (~game_over /\ game_over' /\ cells[i].is_mine)
                       \/ (~win /\ win' /\ ~cells[i].is_mine))]_vars

\* a flagged mine shown by the sweep of a lost game
C3_Witness ==
    /\ game_over
    /\ \E i \in Idx : cells[i].is_mine /\ cells[i].is_flagged
                      /\ cells[i].is_revealed
    /\ revealed_count > 0

\* C4 (as stated): revealed_count equals the number of revealed cells.
C4_CounterAllRevealed == revealed_count = Cardinality(Revealed)

\* C4 (amended): while win is false revealed_count equals the number of
\* revealed cells that are not mines (mines shown after a loss are not
\* counted); once win is true it equals cols*rows - num_mines.
C4_CounterNonMines ==
    /\ ~win => revealed_count = Cardinality(Revealed \ Mines)
    /\ win => revealed_count = cols * rows - num_mines

\* a lost game with revealed safe cells and revealed, uncounted mines
C4_Witness ==
    /\ game_over /\ ~win
    /\ revealed_count > 0
    /\ Cardinality(Revealed) > revealed_count

\* C5: mine placement. For every in-bounds first-reveal position (sc,sr) and
\* every outcome of the shuffle, place_mines leaves exactly
\* min(num_mines, pool_size) mines, pool_size being the number of cells
\* outside the 3x3 block around (sc,sr), and no mine inside that block.
C5_MinePlacement ==
    ~mines_placed =>
        \A sc \in 0..(cols - 1), sr \in 0..(rows - 1) :
            \A mine_positions \in mine_choices(sc, sr) :
                LET placed == place_mines(cells, mine_positions)
                    mines == {i \in Idx : placed[i].is_mine}
                    zone == {i \in Idx : /\ Abs(ColOf(i) - sc) <= 1
                                         /\ Abs(RowOf(i) - sr) <= 1}
                    pool_size == cols * rows - Cardinality(zone)
                IN /\ Cardinality(mines) = Min(num_mines, pool_size)
                   /\ mines \cap zone = {}

\* placement that had to truncate: some mines, fewer than requested
C5_Witness ==
    /\ mines_placed
    /\ Mines # {}
    /\ Cardinality(Mines) < num_mines

\* C6: win condition. win only changes from false to true, and only in a
\* reveal or hint_reveal step that raised revealed_count to
\* cols*rows - num_mines with game_over false.
C6_WinCondition ==
    [][/\ win => win'
       /\ (~win /\ win') =>
            /\ Reveal \/ HintReveal
            /\ revealed_count' > revealed_count
            /\ revealed_count' = cols * rows - num_mines
            /\ ~game_over /\ ~game_over']_vars

C6_Witness == win /\ ~game_over /\ Mines # {}

\* C7: win completeness. When win is true every non-mine cell is revealed.
C7_WinComplete == win => NonMines \subseteq Revealed

\* a won game in which a flagged safe cell was force-revealed
C7_Witness ==
    /\ win
    /\ \E i \in Idx : ~cells[i].is_mine /\ cells[i].is_flagged
                      /\ cells[i].is_revealed

\* C8: win detection. Whenever mines are placed, all non-mine cells are
\* revealed and game_over is false, win is true.
C8_WinDetection ==
    (mines_placed /\ NonMines \subseteq Revealed /\ ~game_over) => win

\* C9: loss effect. game_over is true exactly when some mine is revealed,
\* and then every mine is revealed.
C9_LossEffect ==
    /\ game_over <=> (Mines \cap Revealed # {})
    /\ game_over => Mines \subseteq Revealed

\* a lost game on a board with at least two mines and hidden safe cells
C9_Witness ==
    /\ game_over
    /\ Cardinality(Mines) >= 2
    /\ NonMines \ Revealed # {}
    /\ revealed_count > 0
\* the zero-adjacency region of start (connected through non-mine cells with
\* adjacent = 0) together with the cells bordering it
RECURSIVE ZeroClosure(_)
ZeroClosure(S) ==
    LET more == {j \in Idx : \E i \in S :
                    /\ ~cells[i].is_mine /\ cells[i].adjacent = 0
                    /\ Adjacent8(i, j)}
    IN IF more \subseteq S THEN S ELSE ZeroClosure(S \cup more)

\* the cells reachable from S by steps that leave a zero-adjacency cell of S
\* and enter a cell that is neither revealed nor flagged
RECURSIVE OpenClosure(_)
OpenClosure(S) ==
    LET more == {j \in Idx : \E i \in S :
                    /\ cells[i].adjacent = 0
                    /\ Adjacent8(i, j)
                    /\ ~cells[j].is_revealed /\ ~cells[j].is_flagged}
    IN IF more \subseteq S THEN S ELSE OpenClosure(S \cup more)

\* reveal(c,r) is aimed at a hidden, unflagged, non-mine cell with
\* adjacent = 0 of a board whose mines are placed
ZeroTarget(c, r) ==
    /\ mines_placed
    /\ LET s == cells[r * cols + c]
       IN ~s.is_mine /\ ~s.is_revealed /\ ~s.is_flagged /\ s.adjacent = 0

\* the flat indices revealed in cell list cs
RevealedIn(cs) == {i \in DOMAIN cs : cs[i].is_revealed}

\* C10 (as stated): a reveal of a hidden zero-adjacency cell reveals exactly
\* its connected zero-adjacency region plus that region's border.
C10_FloodFillRegion ==
    \A c \in 0..(cols - 1), r \in 0..(rows - 1) :
        ZeroTarget(c, r) =>
            RevealedIn(reveal_result(c, r, cells).cells)
                = Revealed \cup ZeroClosure({r * cols + c})

\* C10 (amended): the reveal marks exactly the cells reachable from (c,r)
\* through hidden, unflagged cells, expanding only zero-adjacency cells
\* (flagged and already revealed cells are neither revealed nor expanded),
\* raises revealed_count by their number, and reveals no other cell unless
\* the call sets win, which adds the remaining non-mine cells. The set does
\* not depend on the order of the stack.
C10_FloodFillOpenRegion ==
    \A c \in 0..(cols - 1), r \in 0..(rows - 1) :
        ZeroTarget(c, r) =>
            LET S == OpenClosure({r * cols + c})
                n == reveal_result(c, r, cells)
            IN /\ n.revealed_count = revealed_count + Cardinality(S)
               /\ RevealedIn(n.cells)
                    = Revealed \cup S
                        \cup (IF ~win /\ n.win THEN NonMines ELSE {})

\* a fill stopped at a flag: a revealed zero-adjacency cell next to a hidden
\* flagged safe cell, in a game still in progress with cells left to reveal
C10_Witness ==
    /\ mines_placed /\ ~win /\ ~game_over
    /\ Mines # {}
    /\ \E i, j \in Idx :
          /\ cells[i].is_revealed /\ ~cells[i].is_mine
          /\ cells[i].adjacent = 0
          /\ Adjacent8(i, j)
          /\ cells[j].is_flagged /\ ~cells[j].is_revealed /\ ~cells[j].is_mine
    /\ \E k \in Idx : cells[k].is_revealed /\ cells[k].adjacent > 0
\* C11: adjacency counts. Once mines are placed, every non-mine cell's
\* adjacent is the number of mine cells among its 8 neighbours (0..8).
C11_AdjacencyCounts ==
    mines_placed =>
        \A i \in NonMines :
            /\ cells[i].adjacent
                 = Cardinality({j \in Mines : Adjacent8(i, j)})
            /\ cells[i].adjacent \in 0..8

\* a safe cell that touches two mines
C11_Witness ==
    /\ mines_placed
    /\ \E i \in NonMines : cells[i].adjacent = 2

\* C12: first-reveal safety. For every in-bounds (c,r) and every outcome of
\* the shuffle, the first reveal(c,r) leaves game_over false and cell (c,r)
\* a non-mine with adjacent = 0 (also when (c,r) carries a flag).
C12_FirstRevealSafe ==
    ~mines_placed =>
        \A c \in 0..(cols - 1), r \in 0..(rows - 1) :
            \A mine_positions \in mine_choices(c, r) :
                LET n == reveal_result(c, r, place_mines(cells, mine_positions))
                    s == n.cells[r * cols + c]
                IN /\ ~n.game_over
                   /\ ~s.is_mine
                   /\ s.adjacent = 0

\* after a first reveal on a board with mines: a revealed zero-adjacency cell
C12_Witness ==
    /\ mines_placed /\ ~game_over
    /\ Mines # {}
    /\ \E i \in Revealed : cells[i].adjacent = 0 /\ ~cells[i].is_mine

\* C13: reveal idempotence. reveal(c,r) on a revealed non-mine cell leaves
\* cells, revealed_count, game_over and win as they are.
C13_RevealIdempotent ==
    \A c \in 0..(cols - 1), r \in 0..(rows - 1) :
        (cells[r * cols + c].is_revealed /\ ~cells[r * cols + c].is_mine) =>
            LET n == reveal_result(c, r, cells)
            IN /\ mines_placed
               /\ n.cells = cells
               /\ n.revealed_count = revealed_count
               /\ n.game_over = game_over
               /\ n.win = win

\* a game in progress with a revealed safe cell and cells still hidden
C13_Witness ==
    /\ ~game_over /\ ~win
    /\ Revealed # {}
    /\ NonMines \ Revealed # {}
\* C14: flag toggle round trip. In every reachable state and for every
\* in-bounds cell: toggle_flag on an unrevealed cell inverts that cell's
\* is_flagged and leaves every other cell field as it is, and a second
\* toggle_flag on the same cell gives back the cell list; on a revealed cell
\* it changes nothing. A toggle_flag step changes no variable but cells.
C14_ToggleRoundTrip ==
    /\ [](\A p \in all_positions :
            LET i == p[2] * cols + p[1]
                once == toggle_flag_cells(cells, p[1], p[2])
            IN IF cells[i].is_revealed THEN once = cells
               ELSE /\ \A j \in Idx \ {i} : once[j] = cells[j]
                    /\ once[i].is_flagged = ~cells[i].is_flagged
                    /\ once[i].is_mine = cells[i].is_mine
                    /\ once[i].is_revealed = cells[i].is_revealed
                    /\ once[i].adjacent = cells[i].adjacent
                    /\ toggle_flag_cells(once, p[1], p[2]) = cells)
    /\ [][\/ UNCHANGED <<cols, rows, num_mines, mines_placed,
                         revealed_count, game_over, win>>
          \/ ~ToggleFlag]_vars

\* a flag standing on a hidden cell of a game in progress, next to revealed
\* cells
C14_Witness ==
    /\ mines_placed /\ ~game_over /\ ~win
    /\ Revealed # {}
    /\ \E i \in Idx : cells[i].is_flagged /\ ~cells[i].is_revealed
\* hint_reveal has nothing to do: mines not placed, game ended, or no cell
\* that is non-mine, unrevealed and unflagged
HintNoOp ==
    \/ ~mines_placed \/ game_over \/ win
    \/ ~\E i \in Idx : ~cells[i].is_mine /\ ~cells[i].is_revealed
                       /\ ~cells[i].is_flagged

\* C15: hint behaviour. When mines are not placed, the game has ended or no
\* cell is non-mine, unrevealed and unflagged, a hint_reveal step changes
\* nothing; otherwise every cell the hint may pick is such a cell and its
\* reveal marks it revealed, raises revealed_count and leaves game_over
\* false; no hint_reveal step sets game_over.
C15_HintBehaviour ==
    /\ [](~HintNoOp =>
            /\ safe_unrevealed # {}
            /\ \A p \in safe_unrevealed :
                 LET i == p[2] * cols + p[1]
                     n == reveal_result(p[1], p[2], cells)
                 IN /\ ~cells[i].is_mine /\ ~cells[i].is_revealed
                    /\ ~cells[i].is_flagged
                    /\ n.cells[i].is_revealed
                    /\ n.revealed_count > revealed_count
                    /\ ~n.game_over)
    /\ [][/\ ~HintNoOp \/ ~HintReveal
          /\ game_over' = game_over \/ ~HintReveal]_vars

\* a game in progress after several reveals where a hint has a choice of at
\* least two cells
C15_Witness ==
    /\ ~HintNoOp
    /\ revealed_count >= 2
    /\ Cardinality(safe_unrevealed) >= 2
\* the positions outside the grid among the caller's inputs
OutOfBounds ==
    {p \in call_positions :
        p[1] < 0 \/ p[1] >= cols \/ p[2] < 0 \/ p[2] >= rows}

\* C16: out-of-bounds no-op. No step that changes the state (cells, counter,
\* outcome flags, placement latch) is a reveal or toggle_flag call with a
\* position outside the grid.
C16_OutOfBoundsNoOp ==
    \A p \in OutOfBounds :
        ~ENABLED <<reveal(p[1], p[2]) \/ toggle_flag(p[1], p[2])>>_vars

\* a board that still has no mines after a flag was set: an out-of-bounds
\* reveal here must not place them
C16_Witness ==
    /\ ~mines_placed
    /\ Flagged # {}
    /\ cols * rows >= 4

\* C17: one-shot placement. Before the latch is set no cell is a mine (and
\* nothing is revealed, every adjacent is 0); an in-bounds reveal sets the
\* latch, toggle_flag and hint_reveal never do; once it is set it stays set
\* and no cell's is_mine or adjacent changes again.
C17_OneShotPlacement ==
    /\ [](~mines_placed =>
            \A i \in Idx : /\ ~cells[i].is_mine /\ ~cells[i].is_revealed
                           /\ cells[i].adjacent = 0)
    /\ [][/\ mines_placed =>
                /\ mines_placed'
                /\ \A i \in Idx : /\ cells'[i].is_mine = cells[i].is_mine
                                  /\ cells'[i].adjacent = cells[i].adjacent
          /\ (~mines_placed /\ mines_placed') => ~ToggleFlag /\ ~HintReveal
          /\ \/ mines_placed \/ mines_placed'
             \/ \A p \in all_positions : ~reveal(p[1], p[2])]_vars

\* mines placed, a flag set and a second reveal made: later calls ran on a
\* placed board
C17_Witness ==
    /\ mines_placed
    /\ Cardinality(Mines) = 2
    /\ Flagged # {}
    /\ game_over
    /\ revealed_count > 0

\* C18: the first revealed cell is safe. game_over is never true while
\* revealed_count is still 0.
C18_FirstRevealedSafe == game_over => revealed_count > 0
\* the cell lists on which a reveal(c,r) made now would start its stack
\* loop: after the placement if mines are not placed yet, and only when the
\* target is neither revealed, flagged nor a mine
FillStarts(c, r) ==
    {cs \in (IF mines_placed THEN {cells}
             ELSE {place_mines(cells, mp) : mp \in mine_choices(c, r)}) :
        LET s == cs[r * cols + c]
        IN ~s.is_revealed /\ ~s.is_flagged /\ ~s.is_mine}

\* C19 (as stated): in one reveal call at most cols*rows positions are
\* pushed on the stack (here even without counting the initial entry).
C19_PushBound ==
    \A c \in 0..(cols - 1), r \in 0..(rows - 1) :
        \A cs \in FillStarts(c, r) :
            flood_fill(<< <<c, r>> >>, cs, 0, 1).pushed - 1 <= cols * rows

\* C19 (amended): a reveal call marks each cell at most once, so at most
\* cols*rows cells per call, but a position is pushed once by every
\* zero-adjacency neighbour revealed before it is popped: the pushes
\* (initial entry included) are at most 1 plus, over the zero-adjacency
\* cells the call reveals, the number of their neighbours that were hidden
\* and unflagged when the call began, hence at most 1 + 8 per revealed cell.
C19_PushBoundPerReveal ==
    \A c \in 0..(cols - 1), r \in 0..(rows - 1) :
        \A cs \in FillStarts(c, r) :
            LET f == flood_fill(<< <<c, r>> >>, cs, 0, 1)
                new == RevealedIn(f.cells) \ RevealedIn(cs)
                edges == {e \in new \X Idx :
                            /\ cs[e[1]].adjacent = 0
                            /\ Adjacent8(e[1], e[2])
                            /\ ~cs[e[2]].is_revealed
                            /\ ~cs[e[2]].is_flagged}
            IN /\ f.count = Cardinality(new)
               /\ f.count <= cols * rows
               /\ f.pushed <= 1 + Cardinality(edges)
               /\ f.pushed <= 1 + 8 * f.count

\* the state left by a fill that pushed cells more than once: a 3x3 board
\* without mines or flags revealed completely
C19_Witness ==
    /\ mines_placed
    /\ cols >= 3 /\ rows >= 3
    /\ Mines = {} /\ Flagged = {}
    /\ Revealed = Idx
\* C20: flood-fill termination. Whenever a reveal call is inside its stack
\* loop, the stack eventually empties and the call returns.
C20_FillTerminates == (pc = "fill") ~> (pc = "idle" /\ stack = <<>>)

\* a loop in progress that holds an entry pushed twice
C20_Witness ==
    /\ pc = "fill"
    /\ \E a, b \in DOMAIN stack : a # b /\ stack[a] = stack[b]
====
